---- MODULE Spec2Model ----
(***************************************************************************)
(* Room coordination core of SoulSnap (server/src/index.ts): the room      *)
(* directory `rooms`, the Socket.IO broadcast groups the handlers address, *)
(* and the five event handlers registered per connection.                  *)
(*                                                                         *)
(* Identifiers (socket ids and client-supplied room identifiers) are       *)
(* strings in the program; here they are drawn from one universe of        *)
(* integers so that a room identifier can be the same string as a socket   *)
(* id, as the server accepts any string a client sends.                    *)
(***************************************************************************)
EXTENDS Integers, Sequences, FiniteSets

\* ---- bounds ----
NumConns == 3
NumRooms == 1
\* join-room events with a new <<room, socket>> pair that a run explores
MaxJoins == 3
\* capture-triggers counted for one room while its membership stays as it is
MaxTriggers == 2
\* messages the server has emitted to one client and the client has not handled
MaxInbox == 1
\* layer-updates sent between two membership events or captures
MaxEdits == 2
\* packets one client has sent and the server has not handled
MaxQueue == 2
\* packets all clients send in a run that follows them through the transport
MaxSends == 3
\* layers in one array
MaxLayers == 3
\* messages a client's socket holds for its peer listeners
MaxPending == 2

\* socket.id of every connection the server will ever accept
SocketIds == 1..NumConns
\* identifiers that are not the id of any socket
PlainRoomIds == (NumConns + 1)..(NumConns + NumRooms)
\* room identifiers clients send with join-room: plain names, and one string
\* that equals the id of socket 1
RoomIds == {1} \cup PlainRoomIds
\* every string a client may put in a `to` or `roomId` field
Names == SocketIds \cup RoomIds
\* an argument that is not a string (a number, an object, undefined): the
\* handlers use it as they use a string, as a key of rooms and of the
\* broadcast groups
NotAString == 0 - 1
\* every key a broadcast group can have
Keys == Names \cup {NotAString}
\* no payload at all (undefined or null where an object is destructured)
Missing == 0 - 2
\* the server never looks into a payload: two distinct opaque values of each
\* kind tell a relayed payload from a wrong one
Signals == {1, 2}
LayerLists == {1, 2}
Backgrounds == {1, 2}

VARIABLES
  sockets,   \* ids of the currently connected sockets (io.sockets)
  closed,    \* ids whose 'disconnect' has been processed (ids are never reused)
  rooms,     \* the directory: Map<string, Room>, as roomId -> room.users
  adapter,   \* Socket.IO broadcast groups: name -> set of socket ids in it
  joined,    \* history: the <<roomId, id>> pairs of processed join-room events
  last,      \* the event handled by the last step, with the directory before it
  out,       \* messages the last step delivered, per receiving socket, in order
  heard,     \* history: <<c, x>> when socket c was delivered user-joined naming x
  capLog,    \* capture-triggers for one room since its membership last changed,
             \* and the capture-now notices they delivered to each socket
  inbox,     \* per client: messages emitted to its socket, not yet handled by it
  editMode,  \* per client: Room shows the Editor (editMode with captured frames)
  editorLayers, \* per client: the Editor's layers state
  upd,       \* history: the layer-updates sent by Editors since the last
             \* membership event or capture
  sendq,     \* per client: packets sent to the server, not yet handled by it
  sent,      \* per client: number of packets it has sent
  arrived,   \* per client: messages that reached it, in order, each with the
             \* sender and the number of the packet that caused it
  editor,    \* one Editor in detail: its layers, selectedLayerId and isDragging
  edited,    \* what the last step of that Editor did to a layer
  backdrop,  \* that Editor's background, backgroundImage and blur
  bgCall,    \* the last updateBackground call: its arguments, the state it
             \* was made in, and the background-update it emitted
  stack,     \* that Editor's layers as the array it is: layer ids, bottom first
  moved,     \* the last reorder or delete: the array before it, and the
             \* array it passed to broadcastLayerUpdate
  peers,     \* per client socket: peersRef, the role of its peer connection
             \* for each identity it has one for
  clientRoom, \* per client socket: the roomId its Room component was given
  unsent     \* per client socket: signals its peer connections have produced
             \* and the socket has not sent yet

logVars == <<heard, capLog>>
clientVars == <<inbox, editMode, editorLayers, upd>>
fifoVars == <<sendq, sent, arrived>>
dragVars == <<editor, edited>>
panelVars == <<backdrop, bgCall, stack, moved>>
peerVars == <<peers, clientRoom, unsent>>
vars ==
  <<sockets, closed, rooms, adapter, joined, last, out,
    logVars, clientVars, fifoVars, dragVars, panelVars, peerVars>>

\* ---- the directory ----
\* rooms.get(roomId)?.users, empty for an unknown room
Users(rm, roomId) == IF roomId \in DOMAIN rm THEN rm[roomId] ELSE {}

\* ---- Socket.IO addressing ----
\* io.to(room).emit(...): every socket in the broadcast group `room`
IoTo(ad, room) == ad[room]

\* socket.to(room).emit(...): the group `room` without the sockets of the
\* group named by the sender's own id (Socket.IO 4 excludes the room
\* socket.id, not the single socket)
SocketTo(ad, id, room) == ad[room] \ ad[id]

\* ---- messages ----
RoomJoinedMsg(roomId, id) == [type |-> "room-joined", roomId |-> roomId, userId |-> id]
UserJoinedMsg(id) == [type |-> "user-joined", userId |-> id]
UserLeftMsg(id) == [type |-> "user-left", userId |-> id]
SignalMsg(id, signal) == [type |-> "signal", from |-> id, signal |-> signal]
LayerUpdateMsg(layers) == [type |-> "layer-update", layers |-> layers]
CaptureNowMsg == [type |-> "capture-now"]

NoOut == [c \in SocketIds |-> <<>>]
\* one emit: each receiver gets the message once
Emit(recv, msg) == [c \in SocketIds |-> IF c \in recv THEN <<msg>> ELSE <<>>]
Event(op, id, arg, data) ==
  [op |-> op, id |-> id, arg |-> arg, data |-> data, rooms |-> rooms, adapter |-> adapter]

NoCaptures == [room |-> 0, sent |-> 0, got |-> [c \in SocketIds |-> 0]]

\* the Editor's layer list right after it is created from the captured frames
InitialLayers == 0

\* ---- one layer list in detail ----
\* ids of the layers of a composite: one per captured frame
LayerIds == {1, 2}
\* values of x (with y) and of opacity (with scale and rotation)
Positions == {0, 1}
Levels == {0, 1}
Layers == [locked : BOOLEAN, x : Positions, opacity : Levels]
\* every layer list a layer-update can carry
Composites == UNION {[ids -> Layers] : ids \in SUBSET LayerIds}
\* no layer selected (selectedLayerId is null)
NoLayer == 0

\* Editor effect on frames: one unlocked layer per frame at x = 0 with
\* opacity 1, the first one selected
InitialEditor ==
  [layers |-> [l \in LayerIds |-> [locked |-> FALSE, x |-> 0, opacity |-> 1]],
   selectedLayerId |-> 1,
   isDragging |-> FALSE]

\* Editor effect on frames: frames.map((frame, index) => ({..., opacity: 1,
\* x: 0, ..., locked: false})), one layer per frame
FromFrames(n) == [l \in 1..n |-> [locked |-> FALSE, x |-> 0, opacity |-> 1]]

NoEdit ==
  [op |-> "none", id |-> NoLayer, locked |-> FALSE, changed |-> FALSE,
   sent |-> FALSE, frames |-> 0]

\* ---- the Editor's background ----
\* useState('transparent'), and the colours of the palette
Transparent == 0
Colors == {Transparent} \cup Backgrounds
\* useState<string | null>(null), and the images a user can upload
NoImage == 0
Images == {1, 2}
\* useState(0), and the positions of the blur slider
Blurs == {0, 1}
\* an argument that is left out of a call
Undefined == 0 - 3

InitialBackdrop == [background |-> Transparent, backgroundImage |-> NoImage, blur |-> 0]
NoCall == [op |-> "none", before |-> InitialBackdrop, sent |-> InitialBackdrop]

\* ---- the Editor's layer array ----
\* the array after the effect on two captured frames
InitialStack == <<1, 2>>
NoMove == [op |-> "none", id |-> NoLayer, before |-> <<>>, called |-> FALSE, sent |-> <<>>]

\* ---- the peer connections ----
Initiator == 1
Responder == 2
\* the offer of an initiator and the answer of the other side, as signals
Offer == 1
Answer == 2
NoPeers == <<>>
NoRoom == 0

Init ==
  /\ editor = InitialEditor
  /\ edited = NoEdit
  /\ backdrop = InitialBackdrop
  /\ bgCall = NoCall
  /\ stack = InitialStack
  /\ moved = NoMove
  /\ peers = [c \in SocketIds |-> NoPeers]
  /\ clientRoom = [c \in SocketIds |-> NoRoom]
  /\ unsent = [c \in SocketIds |-> {}]
  /\ heard = {}
  /\ capLog = NoCaptures
  /\ inbox = [c \in SocketIds |-> <<>>]
  /\ editMode = [c \in SocketIds |-> FALSE]
  /\ editorLayers = [c \in SocketIds |-> InitialLayers]
  /\ upd = <<>>
  /\ sendq = [c \in SocketIds |-> <<>>]
  /\ sent = [c \in SocketIds |-> 0]
  /\ arrived = [c \in SocketIds |-> <<>>]
  /\ sockets = {}
  /\ closed = {}
  /\ rooms = <<>>
  /\ adapter = [n \in Keys |-> {}]
  /\ joined = {}
  /\ last = [op |-> "none", id |-> 0, arg |-> 0, data |-> 0,
             rooms |-> <<>>, adapter |-> [n \in Keys |-> {}]]
  /\ out = NoOut

\* io.on('connection'): a new socket with a fresh id, placed in the group
\* named by its own id
Connect(id) ==
  /\ id \notin sockets \cup closed
  /\ sockets' = sockets \cup {id}
  /\ adapter' = [adapter EXCEPT ![id] = @ \cup {id}]
  /\ last' = Event("connection", id, 0, 0)
  /\ out' = NoOut
  /\ UNCHANGED <<closed, rooms, joined>>

\* ---- join-room ----
\* a join that replaces the member set instead of adding to it
JoinRoomsOverwrite(rm, id, roomId) ==
  [r \in DOMAIN rm \cup {roomId} |-> IF r = roomId THEN {id} ELSE rm[r]]

\* a join that only creates rooms: joining a room that exists is dropped
JoinRoomsCreateOnly(rm, id, roomId) ==
  [r \in DOMAIN rm \cup {roomId} |-> IF r \in DOMAIN rm THEN rm[r] ELSE {id}]

\* a join that moves the socket: it is taken out of every other room
JoinRoomsMove(rm, id, roomId) ==
  [r \in {q \in DOMAIN rm : q = roomId \/ rm[q] # {id}} \cup {roomId} |->
     IF r = roomId THEN Users(rm, r) \cup {id} ELSE rm[r] \ {id}]

JoinRooms(rm, id, roomId) ==
  [r \in DOMAIN rm \cup {roomId} |-> IF r = roomId THEN Users(rm, r) \cup {id} ELSE rm[r]]

JoinAdapter(ad, id, roomId) == [ad EXCEPT ![roomId] = @ \cup {id}]

\* a join that announces the joiner with io.to(roomId), the joiner included
JoinOutNotifyAll(ad, id, roomId) ==
  [c \in SocketIds |->
     (IF c = id THEN <<RoomJoinedMsg(roomId, id)>> ELSE <<>>)
     \o (IF c \in IoTo(ad, roomId) THEN <<UserJoinedMsg(id)>> ELSE <<>>)]

\* a join that acknowledges to the whole room instead of the joining socket
JoinOutAckToRoom(ad, id, roomId) ==
  [c \in SocketIds |->
     (IF c \in IoTo(ad, roomId) THEN <<RoomJoinedMsg(roomId, id)>> ELSE <<>>)
     \o (IF c \in SocketTo(ad, id, roomId) THEN <<UserJoinedMsg(id)>> ELSE <<>>)]

\* a join that replays a layer list the server kept to a socket joining a
\* room that has members
JoinOutReplay(ad, id, roomId) ==
  [c \in SocketIds |->
     (IF c = id THEN <<RoomJoinedMsg(roomId, id)>> ELSE <<>>)
     \o (IF c = id /\ ad[roomId] # {id} THEN <<LayerUpdateMsg(1)>> ELSE <<>>)
     \o (IF c \in SocketTo(ad, id, roomId) THEN <<UserJoinedMsg(id)>> ELSE <<>>)]

JoinOut(ad, id, roomId) ==
  [c \in SocketIds |->
     (IF c = id THEN <<RoomJoinedMsg(roomId, id)>> ELSE <<>>)
     \o (IF c \in SocketTo(ad, id, roomId) THEN <<UserJoinedMsg(id)>> ELSE <<>>)]

JoinRoom(id, roomId) ==
  /\ id \in sockets
  /\ <<roomId, id>> \in joined \/ Cardinality(joined) < MaxJoins
  /\ rooms' = JoinRooms(rooms, id, roomId)
  /\ adapter' = JoinAdapter(adapter, id, roomId)
  /\ out' = JoinOut(adapter', id, roomId)
  /\ joined' = joined \cup {<<roomId, id>>}
  /\ last' = Event("join-room", id, roomId, 0)
  /\ UNCHANGED <<sockets, closed>>

\* ---- signal ----
\* a relay through socket.to(to) instead of io.to(to)
SignalOutFromSocket(ad, id, to, signal) == Emit(SocketTo(ad, id, to), SignalMsg(id, signal))

\* a relay that delivers only to sockets sharing a joined room with the sender
SignalOutSameRoom(ad, id, to, signal) ==
  Emit({c \in IoTo(ad, to) : \E r \in RoomIds \ {c, id} : {c, id} \subseteq ad[r]},
       SignalMsg(id, signal))

SignalOut(ad, id, to, signal) == Emit(IoTo(ad, to), SignalMsg(id, signal))

Signal(id, to, signal) ==
  /\ id \in sockets
  /\ out' = SignalOut(adapter, id, to, signal)
  /\ last' = Event("signal", id, to, signal)
  /\ UNCHANGED <<sockets, closed, rooms, adapter, joined>>

\* ---- layer-update ----
LayerUpdateOut(ad, id, roomId, layers) ==
  Emit(SocketTo(ad, id, roomId), LayerUpdateMsg(layers))

LayerUpdate(id, roomId, layers) ==
  /\ id \in sockets
  /\ out' = LayerUpdateOut(adapter, id, roomId, layers)
  /\ last' = Event("layer-update", id, roomId, layers)
  /\ UNCHANGED <<sockets, closed, rooms, adapter, joined>>

\* ---- capture-trigger ----
CaptureTriggerOut(ad, roomId) == Emit(IoTo(ad, roomId), CaptureNowMsg)

\* a server that drops a trigger that directly follows one for the same room
CaptureTriggerCoalesced(id, roomId) ==
  /\ id \in sockets
  /\ out' = IF last.op = "capture-trigger" /\ last.arg = roomId
              THEN NoOut ELSE Emit(IoTo(adapter, roomId), CaptureNowMsg)
  /\ last' = Event("capture-trigger", id, roomId, 0)
  /\ UNCHANGED <<sockets, closed, rooms, adapter, joined>>

\* a server that opens a directory entry for a room it is asked to capture
CaptureTriggerOpensRoom(id, roomId) ==
  /\ id \in sockets
  /\ out' = CaptureTriggerOut(adapter, roomId)
  /\ last' = Event("capture-trigger", id, roomId, 0)
  /\ rooms' = [r \in DOMAIN rooms \cup {roomId} |-> Users(rooms, r)]
  /\ UNCHANGED <<sockets, closed, adapter, joined>>

CaptureTrigger(id, roomId) ==
  /\ id \in sockets
  /\ out' = CaptureTriggerOut(adapter, roomId)
  /\ last' = Event("capture-trigger", id, roomId, 0)
  /\ UNCHANGED <<sockets, closed, rooms, adapter, joined>>

\* ---- background-update ----
\* The Editor emits 'background-update'; the server registers no listener
\* for it, so the event is received and nothing is done.
BackgroundUpdateOut(ad, id, roomId, background) == NoOut

BackgroundUpdate(id, roomId, background) ==
  /\ id \in sockets
  /\ out' = BackgroundUpdateOut(adapter, id, roomId, background)
  /\ last' = Event("background-update", id, roomId, background)
  /\ UNCHANGED <<sockets, closed, rooms, adapter, joined>>

\* ---- disconnect ----
\* Socket.IO takes the socket out of every broadcast group before it fires
\* 'disconnect'
LeaveAll(ad, id) == [n \in DOMAIN ad |-> ad[n] \ {id}]

\* a handler that removes the member and never deletes the emptied room
DisconnectRoomsKeepEmpty(rm, id) == [r \in DOMAIN rm |-> rm[r] \ {id}]

\* a handler that stops at the first room that holds id
DisconnectRoomsFirstOnly(rm, id) ==
  LET holding == {q \in DOMAIN rm : id \in rm[q]}
      first == IF holding = {} THEN 0
               ELSE CHOOSE q \in holding : \A p \in holding : q <= p
  IN [r \in {q \in DOMAIN rm : ~(q = first /\ rm[q] \ {id} = {})} |->
        IF r = first THEN rm[r] \ {id} ELSE rm[r]]

\* a handler that never removes the last member of a room
DisconnectRoomsLeaveLast(rm, id) ==
  [r \in DOMAIN rm |-> IF rm[r] = {id} THEN rm[r] ELSE rm[r] \ {id}]

\* rooms.forEach of the handler: the directory afterwards
DisconnectRooms(rm, id) ==
  [r \in {q \in DOMAIN rm : ~(id \in rm[q] /\ rm[q] \ {id} = {})} |-> rm[r] \ {id}]

\* a handler that emits user-left to every room, without room.users.has(id)
DisconnectOutNoHasCheck(rm, ad, id) ==
  [c \in SocketIds |->
     [i \in 1..Cardinality({r \in DOMAIN rm : c \in SocketTo(ad, id, r)})
        |-> UserLeftMsg(id)]]

\* rooms.forEach of the handler: one user-left emit per room that holds id
\* (the notices are identical, so their order of emission is immaterial)
DisconnectOut(rm, ad, id) ==
  [c \in SocketIds |->
     [i \in 1..Cardinality({r \in DOMAIN rm : id \in rm[r] /\ c \in SocketTo(ad, id, r)})
        |-> UserLeftMsg(id)]]

Disconnect(id) ==
  /\ id \in sockets
  /\ sockets' = sockets \ {id}
  /\ closed' = closed \cup {id}
  /\ adapter' = LeaveAll(adapter, id)
  /\ rooms' = DisconnectRooms(rooms, id)
  /\ out' = DisconnectOut(rooms, adapter', id)
  /\ last' = Event("disconnect", id, 0, 0)
  /\ UNCHANGED joined

\* the same handler run once more for a connection that is already gone
\* (the loss reported by a second code path)
DisconnectAgain(id) ==
  /\ id \in closed
  /\ adapter' = LeaveAll(adapter, id)
  /\ rooms' = DisconnectRooms(rooms, id)
  /\ out' = DisconnectOut(rooms, adapter', id)
  /\ last' = Event("disconnect-again", id, 0, 0)
  /\ UNCHANGED <<sockets, closed, joined>>

\* ---- specifications ----
\* membership events only
RoomsNext ==
  \/ \E id \in SocketIds : Connect(id) /\ UNCHANGED <<logVars, clientVars, fifoVars, dragVars, panelVars, peerVars>>
  \/ \E id \in SocketIds, roomId \in RoomIds :
       JoinRoom(id, roomId) /\ UNCHANGED <<logVars, clientVars, fifoVars, dragVars, panelVars, peerVars>>
  \/ \E id \in SocketIds : Disconnect(id) /\ UNCHANGED <<logVars, clientVars, fifoVars, dragVars, panelVars, peerVars>>
  \/ \E id \in SocketIds :
       DisconnectAgain(id) /\ UNCHANGED <<logVars, clientVars, fifoVars, dragVars, panelVars, peerVars>>

SpecRooms == Init /\ [][RoomsNext]_vars

\* membership events and the signal relay
SignalNext ==
  \/ RoomsNext
  \/ /\ \E id \in SocketIds, to \in Names, signal \in Signals : Signal(id, to, signal)
     /\ UNCHANGED <<logVars, clientVars, fifoVars, dragVars, panelVars, peerVars>>

SpecSignal == Init /\ [][SignalNext]_vars

\* membership events and capture triggers
CaptureNext ==
  \/ RoomsNext
  \/ /\ \E id \in SocketIds, roomId \in Names : CaptureTrigger(id, roomId)
     /\ UNCHANGED <<logVars, clientVars, fifoVars, dragVars, panelVars, peerVars>>

SpecCapture == Init /\ [][CaptureNext]_vars

\* membership events and layer updates
LayersNext ==
  \/ RoomsNext
  \/ /\ \E id \in SocketIds, roomId \in Names, layers \in LayerLists :
          LayerUpdate(id, roomId, layers)
     /\ UNCHANGED <<logVars, clientVars, fifoVars, dragVars, panelVars, peerVars>>

SpecLayers == Init /\ [][LayersNext]_vars

\* membership events and background updates
BackgroundNext ==
  \/ RoomsNext
  \/ /\ \E id \in SocketIds, roomId \in Names, background \in Backgrounds :
          BackgroundUpdate(id, roomId, background)
     /\ UNCHANGED <<logVars, clientVars, fifoVars, dragVars, panelVars, peerVars>>

SpecBackground == Init /\ [][BackgroundNext]_vars

\* every event
Next ==
  \/ RoomsNext
  \/ /\ \E id \in SocketIds, to \in Names, signal \in Signals : Signal(id, to, signal)
     /\ UNCHANGED <<logVars, clientVars, fifoVars, dragVars, panelVars, peerVars>>
  \/ /\ \E id \in SocketIds, roomId \in Names, layers \in LayerLists :
          LayerUpdate(id, roomId, layers)
     /\ UNCHANGED <<logVars, clientVars, fifoVars, dragVars, panelVars, peerVars>>
  \/ /\ \E id \in SocketIds, roomId \in Names : CaptureTrigger(id, roomId)
     /\ UNCHANGED <<logVars, clientVars, fifoVars, dragVars, panelVars, peerVars>>
  \/ /\ \E id \in SocketIds, roomId \in Names, background \in Backgrounds :
          BackgroundUpdate(id, roomId, background)
     /\ UNCHANGED <<logVars, clientVars, fifoVars, dragVars, panelVars, peerVars>>

Spec == Init /\ [][Next]_vars

\* ---- malformed messages ----
\* A signal or layer-update without a payload: the listener's parameter
\* destructuring ({ to, signal }) / ({ roomId, layers }) throws a TypeError.
\* index.ts catches nothing and installs no uncaughtException handler, and
\* Socket.IO (3 or later, as allowEIO3 shows) runs listeners from
\* process.nextTick without a try: the exception ends the process, and with
\* it every connection and the directory.
ListenerThrows(id, op) ==
  /\ id \in sockets
  /\ sockets' = {}
  /\ closed' = closed \cup sockets
  /\ rooms' = <<>>
  /\ adapter' = [n \in DOMAIN adapter |-> {}]
  /\ out' = NoOut
  /\ last' = Event(op, id, Missing, Missing)
  /\ UNCHANGED joined

\* membership events, and messages whose argument is not a string or whose
\* payload is missing
MalformedNext ==
  \/ RoomsNext
  \/ \E id \in SocketIds :
       JoinRoom(id, NotAString) /\ UNCHANGED <<logVars, clientVars, fifoVars, dragVars, panelVars, peerVars>>
  \/ \E id \in SocketIds :
       CaptureTrigger(id, NotAString) /\ UNCHANGED <<logVars, clientVars, fifoVars, dragVars, panelVars, peerVars>>
  \/ \E id \in SocketIds, signal \in Signals :
       Signal(id, NotAString, signal) /\ UNCHANGED <<logVars, clientVars, fifoVars, dragVars, panelVars, peerVars>>
  \/ \E id \in SocketIds, layers \in LayerLists :
       LayerUpdate(id, NotAString, layers)
         /\ UNCHANGED <<logVars, clientVars, fifoVars, dragVars, panelVars, peerVars>>
  \/ \E id \in SocketIds, op \in {"signal", "layer-update"} :
       ListenerThrows(id, op) /\ UNCHANGED <<logVars, clientVars, fifoVars, dragVars, panelVars, peerVars>>

SpecMalformed == Init /\ [][MalformedNext]_vars

\* ---- deliveries on record ----
\* number of messages of a type among the messages o delivers to socket c
Count(o, c, type) == Cardinality({i \in DOMAIN o[c] : o[c][i].type = type})

\* the user-joined notices of one step, added to the record
Hear(h, o) ==
  h \cup UNION {{<<c, o[c][i].userId>> :
                   i \in {j \in DOMAIN o[c] : o[c][j].type = "user-joined"}} :
                c \in SocketIds}

\* membership events, with the user-joined notices kept on record
Heard == heard' = Hear(heard, out') /\ UNCHANGED <<capLog, clientVars, fifoVars, dragVars, panelVars, peerVars>>

HeardNext ==
  \/ \E id \in SocketIds : Connect(id) /\ Heard
  \/ \E id \in SocketIds, roomId \in RoomIds : JoinRoom(id, roomId) /\ Heard
  \/ \E id \in SocketIds : Disconnect(id) /\ Heard
  \/ \E id \in SocketIds : DisconnectAgain(id) /\ Heard

SpecHeard == Init /\ [][HeardNext]_vars

\* a membership event ends the count for the room it changes
CapturesAfterMembership(log, before, after) ==
  IF log.room # 0 /\ Users(before, log.room) # Users(after, log.room)
    THEN NoCaptures ELSE log

\* a trigger naming the counted room (or the first one counted) adds itself
\* and the notices it delivered; a trigger naming another room is not counted
CapturesAfterTrigger(log, roomId, o) ==
  IF log.room \in {0, roomId}
    THEN [room |-> roomId, sent |-> log.sent + 1,
          got |-> [c \in SocketIds |-> log.got[c] + Count(o, c, "capture-now")]]
    ELSE log

\* membership events and capture triggers, with the triggers for one room
\* and their notices counted
MembershipLogged ==
  /\ capLog' = CapturesAfterMembership(capLog, rooms, rooms')
  /\ UNCHANGED <<heard, clientVars, fifoVars, dragVars, panelVars, peerVars>>

CaptureLogNext ==
  \/ \E id \in SocketIds : Connect(id) /\ MembershipLogged
  \/ \E id \in SocketIds, roomId \in RoomIds : JoinRoom(id, roomId) /\ MembershipLogged
  \/ \E id \in SocketIds : Disconnect(id) /\ MembershipLogged
  \/ \E id \in SocketIds : DisconnectAgain(id) /\ MembershipLogged
  \/ /\ \E id \in SocketIds, roomId \in RoomIds :
          /\ capLog.room = roomId => capLog.sent < MaxTriggers
          /\ CaptureTrigger(id, roomId)
          /\ capLog' = CapturesAfterTrigger(capLog, roomId, out')
     /\ UNCHANGED <<heard, clientVars, fifoVars, dragVars, panelVars, peerVars>>

SpecCaptureLog == Init /\ [][CaptureLogNext]_vars

\* ---- the clients ----
\* the messages among q that change what a client shows or edits; the
\* handlers of the others (room-joined, user-joined, user-left, signal) work
\* on the peer connections only
RECURSIVE ForEditing(_)
ForEditing(q) ==
  IF q = <<>> THEN <<>>
  ELSE IF Head(q).type \in {"capture-now", "layer-update"}
         THEN <<Head(q)>> \o ForEditing(Tail(q))
         ELSE ForEditing(Tail(q))

\* messages emitted to the sockets, appended to what each client has pending
Deliver(box, o) == [c \in SocketIds |-> box[c] \o ForEditing(o[c])]

\* some client has a message of the type pending
Pending(box, type) ==
  \E c \in SocketIds : \E i \in DOMAIN box[c] : box[c][i].type = type

\* a layer-update sent by an Editor, as the history keeps it: whether no
\* layer-update was on its way to any client when it was sent (quiet),
\* whether one was on its way to the sender itself (raced), and the sockets
\* the server emitted it to
Update(id, roomId, layers, o) ==
  [from |-> id, roomId |-> roomId, layers |-> layers,
   quiet |-> ~Pending(inbox, "layer-update"),
   raced |-> \E i \in DOMAIN inbox[id] : inbox[id][i].type = "layer-update",
   to |-> {c \in SocketIds : Count(o, c, "layer-update") > 0}]

\* what is kept per client, without the clients whose socket is gone: the
\* model follows a client for as long as its socket lives
Forget(f, gone, none) == [c \in SocketIds |-> IF c \in gone THEN none ELSE f[c]]

\* what a membership event does to the clients: its notices are put in
\* their inboxes
ClientsNotified ==
  /\ inbox' = Forget(Deliver(inbox, out'), closed', <<>>)
  /\ \A c \in SocketIds : Len(inbox'[c]) <= MaxInbox
  /\ upd' = <<>>
  /\ editMode' = Forget(editMode, closed', FALSE)
  /\ editorLayers' = Forget(editorLayers, closed', InitialLayers)
  /\ UNCHANGED <<logVars, fifoVars, dragVars, panelVars, peerVars>>

\* Room.handleCapture: the capture button of a client that shows the room
HandleCapture(id, roomId) ==
  /\ ~editMode[id]
  /\ <<roomId, id>> \in joined
  /\ CaptureTrigger(id, roomId)
  /\ inbox' = Deliver(inbox, out')
  /\ \A c \in SocketIds : Len(inbox'[c]) <= MaxInbox
  /\ upd' = <<>>
  /\ UNCHANGED <<editMode, editorLayers>>

\* an edit in the Editor (updateLayer, moveLayerUp, deleteLayer, ...):
\* setLayers(newLayers) and broadcastLayerUpdate(newLayers)
EditLayers(id, roomId, newLayers) ==
  /\ editMode[id]
  /\ <<roomId, id>> \in joined
  /\ LayerUpdate(id, roomId, newLayers)
  /\ editorLayers' = [editorLayers EXCEPT ![id] = newLayers]
  /\ inbox' = Deliver(inbox, out')
  /\ \A c \in SocketIds : Len(inbox'[c]) <= MaxInbox
  /\ Len(upd) < MaxEdits
  /\ upd' = Append(upd, Update(id, roomId, newLayers, out'))
  /\ UNCHANGED editMode

\* a handler that drops every update: data.senderId !== socket.id taken as
\* false for the messages the server sends
HandleLayerUpdateKeepOwn(own, data) == own

\* a handler that keeps the newer of the two lists, so that racing updates
\* end in the same list everywhere
HandleLayerUpdateNewest(own, data) == IF data.layers > own THEN data.layers ELSE own

\* Editor.handleLayerUpdate: the server's message carries no senderId, so
\* data.senderId !== socket.id holds and the layers are replaced
HandleLayerUpdate(own, data) == data.layers

\* a client that sends on every layer-update it handles to the other sockets
ReceiveAndEcho(c, gotFrames) ==
  /\ inbox[c] # <<>>
  /\ LET data == Head(inbox[c]) IN
       /\ out' = IF data.type = "layer-update" /\ editMode[c]
                   THEN Emit(sockets \ {c}, data) ELSE NoOut
       /\ inbox' = Deliver([inbox EXCEPT ![c] = Tail(inbox[c])], out')
       /\ CASE data.type = "capture-now" /\ gotFrames ->
              /\ editMode' = [editMode EXCEPT ![c] = TRUE]
              /\ editorLayers' = [editorLayers EXCEPT ![c] = InitialLayers]
              /\ upd' = <<>>
         [] data.type = "layer-update" /\ editMode[c] ->
              /\ editorLayers' =
                   [editorLayers EXCEPT ![c] = HandleLayerUpdate(editorLayers[c], data)]
              /\ UNCHANGED <<editMode, upd>>
         [] OTHER -> UNCHANGED <<editMode, editorLayers, upd>>
  /\ last' = Event("receive", c, 0, 0)
  /\ UNCHANGED <<sockets, closed, rooms, adapter, joined>>

\* the client handles the oldest message its socket has for it
Receive(c, gotFrames) ==
  /\ inbox[c] # <<>>
  /\ inbox' = [inbox EXCEPT ![c] = Tail(inbox[c])]
  /\ LET data == Head(inbox[c]) IN
       CASE data.type = "capture-now" /\ gotFrames ->
              \* setCapturedFrames(frames); setEditMode(true); the Editor
              \* initializes its layers from the frames
              /\ editMode' = [editMode EXCEPT ![c] = TRUE]
              /\ editorLayers' = [editorLayers EXCEPT ![c] = InitialLayers]
              /\ upd' = <<>>
         [] data.type = "layer-update" /\ editMode[c] ->
              /\ editorLayers' =
                   [editorLayers EXCEPT ![c] = HandleLayerUpdate(editorLayers[c], data)]
              /\ UNCHANGED <<editMode, upd>>
         [] OTHER -> UNCHANGED <<editMode, editorLayers, upd>>
  /\ last' = Event("receive", c, 0, 0)
  /\ out' = NoOut
  /\ UNCHANGED <<sockets, closed, rooms, adapter, joined>>

\* membership events, capture buttons, edits, and the clients' handlers
EditNext ==
  \/ \E id \in SocketIds : Connect(id) /\ ClientsNotified
  \/ \E id \in SocketIds, roomId \in RoomIds : JoinRoom(id, roomId) /\ ClientsNotified
  \/ \E id \in SocketIds : Disconnect(id) /\ ClientsNotified
  \/ \E id \in SocketIds : DisconnectAgain(id) /\ ClientsNotified
  \/ \E id \in SocketIds, roomId \in RoomIds :
       HandleCapture(id, roomId) /\ UNCHANGED <<logVars, fifoVars, dragVars, panelVars, peerVars>>
  \/ \E id \in SocketIds, roomId \in RoomIds, newLayers \in LayerLists :
       EditLayers(id, roomId, newLayers) /\ UNCHANGED <<logVars, fifoVars, dragVars, panelVars, peerVars>>
  \/ \E c \in SocketIds, gotFrames \in BOOLEAN :
       Receive(c, gotFrames) /\ UNCHANGED <<logVars, fifoVars, dragVars, panelVars, peerVars>>

SpecEdit == Init /\ [][EditNext]_vars

\* ---- the Editor's canvas and layer controls ----
\* layers.find(l => l.id === selectedLayerId) is a layer
HasSelectedLayer(ed) == ed.selectedLayerId \in DOMAIN ed.layers

\* updateLayer: layers.map(layer => layer.id === layerId ? {...layer,
\* ...updates} : layer); a layerId that is not in the list changes nothing
UpdateLayer(list, layerId, updates) ==
  [l \in DOMAIN list |->
     IF l = layerId
       THEN [f \in DOMAIN list[l] |->
               IF f \in DOMAIN updates THEN updates[f] ELSE list[l][f]]
       ELSE list[l]]

\* what an edit of a layer did, given the lists before and after it;
\* updateLayer ends with broadcastLayerUpdate(updatedLayers) (sent)
Edit(op, layerId, before, after) ==
  [op |-> op, id |-> layerId,
   locked |-> layerId \in DOMAIN before /\ before[layerId].locked,
   changed |-> layerId \in DOMAIN before /\ after[layerId] # before[layerId],
   sent |-> TRUE, frames |-> 0]

\* the server state and the other clients stay as they are
CanvasOnly ==
  UNCHANGED <<sockets, closed, rooms, adapter, joined, last, out,
              logVars, clientVars, fifoVars, panelVars, peerVars>>

\* handleCanvasMouseDown
HandleCanvasMouseDown ==
  /\ HasSelectedLayer(editor)
  /\ ~editor.layers[editor.selectedLayerId].locked
  /\ editor' = [editor EXCEPT !.isDragging = TRUE]
  /\ edited' = NoEdit
  /\ CanvasOnly

\* handleCanvasMouseMove: updateLayer(selectedLayerId, {x, y}) while dragging
HandleCanvasMouseMove(newX) ==
  /\ editor.isDragging
  /\ editor.selectedLayerId # NoLayer
  /\ LET updated == UpdateLayer(editor.layers, editor.selectedLayerId, [x |-> newX])
     IN /\ editor' = [editor EXCEPT !.layers = updated]
        /\ edited' = Edit("drag", editor.selectedLayerId, editor.layers, updated)
  /\ CanvasOnly

\* handleCanvasMouseUp, bound to onMouseUp and onMouseLeave of the canvas
HandleCanvasMouseUp ==
  /\ editor.isDragging
  /\ editor' = [editor EXCEPT !.isDragging = FALSE]
  /\ edited' = NoEdit
  /\ CanvasOnly

\* the opacity, scale and rotation inputs of Layer Properties: rendered for
\* the selected layer, disabled while it is locked
SetLayerProperty(level) ==
  /\ HasSelectedLayer(editor)
  /\ ~editor.layers[editor.selectedLayerId].locked
  /\ LET updated == UpdateLayer(editor.layers, editor.selectedLayerId, [opacity |-> level])
     IN /\ editor' = [editor EXCEPT !.layers = updated]
        /\ edited' = Edit("property", editor.selectedLayerId, editor.layers, updated)
  /\ CanvasOnly

\* the lock button of a layer in the layers panel; the pointer is on the
\* panel, so it has left the canvas and no drag is in progress
ToggleLock(layerId) ==
  /\ ~editor.isDragging
  /\ layerId \in DOMAIN editor.layers
  /\ LET updated ==
           UpdateLayer(editor.layers, layerId, [locked |-> ~editor.layers[layerId].locked])
     IN /\ editor' = [editor EXCEPT !.layers = updated]
        /\ edited' = Edit("lock", layerId, editor.layers, updated)
  /\ CanvasOnly

\* a click on a layer of the layers panel: setSelectedLayerId(layer.id)
SelectLayer(layerId) ==
  /\ ~editor.isDragging
  /\ layerId \in DOMAIN editor.layers
  /\ editor' = [editor EXCEPT !.selectedLayerId = layerId]
  /\ edited' = NoEdit
  /\ CanvasOnly

\* a layer-update of another member arrives: handleLayerUpdate replaces the
\* list; selectedLayerId and isDragging stay as they are
RemoteLayerUpdate(list) ==
  /\ editor' = [editor EXCEPT !.layers = HandleLayerUpdate(editor.layers, [layers |-> list])]
  /\ edited' = NoEdit
  /\ CanvasOnly

\* a capture-now that leaves the layers of an open Editor as they are
CaptureNowKeepLayers(n) ==
  /\ editor' = editor
  /\ edited' = [NoEdit EXCEPT !.op = "capture", !.frames = n]
  /\ CanvasOnly

\* Room's capture-now listener with n frames captured (n > 0), while the
\* Editor is shown: setCapturedFrames(frames) gives the Editor a new frames
\* prop, and its effect on frames calls setLayers(initialLayers) and
\* setSelectedLayerId(initialLayers[0].id); nothing is emitted
CaptureNow(n) ==
  /\ editor' = [editor EXCEPT !.layers = FromFrames(n), !.selectedLayerId = 1]
  /\ edited' = [NoEdit EXCEPT !.op = "capture", !.frames = n,
                              !.changed = (editor.layers # FromFrames(n))]
  /\ CanvasOnly

\* one Editor: the pointer on the canvas, the layer controls, the
\* layer-updates of the other members, and the captures
DragNext ==
  \/ HandleCanvasMouseDown
  \/ \E newX \in Positions : HandleCanvasMouseMove(newX)
  \/ HandleCanvasMouseUp
  \/ \E level \in Levels : SetLayerProperty(level)
  \/ \E layerId \in LayerIds : ToggleLock(layerId)
  \/ \E layerId \in LayerIds : SelectLayer(layerId)
  \/ \E list \in Composites : RemoteLayerUpdate(list)
  \/ \E n \in 1..Cardinality(LayerIds) : CaptureNow(n)

SpecDrag == Init /\ [][DragNext]_vars

\* ---- the Editor's background controls ----
\* the parameters of updateBackground once the default applies:
\* bgImage: string | null = null
BgImageParam(bgImage) == IF bgImage = Undefined THEN NoImage ELSE bgImage

\* broadcastBackgroundUpdate(bg, bgImage || backgroundImage, newBlur)
BackgroundSent(state, bg, bgImage, bgBlur) ==
  [background |-> bg,
   backgroundImage |-> IF BgImageParam(bgImage) # NoImage
                         THEN BgImageParam(bgImage) ELSE state.backgroundImage,
   blur |-> IF bgBlur # Undefined THEN bgBlur ELSE state.blur]

\* setBackground(bg); if (bgImage !== undefined) setBackgroundImage(bgImage);
\* setBlur(newBlur)
BackgroundSet(state, bg, bgImage, bgBlur) ==
  [background |-> bg,
   backgroundImage |-> IF BgImageParam(bgImage) # Undefined
                         THEN BgImageParam(bgImage) ELSE state.backgroundImage,
   blur |-> IF bgBlur # Undefined THEN bgBlur ELSE state.blur]

\* the rest of the system while one Editor's panels are used
PanelOnly ==
  UNCHANGED <<sockets, closed, rooms, adapter, joined, last, out,
              logVars, clientVars, fifoVars, dragVars, peerVars>>

UpdateBackground(bg, bgImage, bgBlur) ==
  /\ backdrop' = BackgroundSet(backdrop, bg, bgImage, bgBlur)
  /\ bgCall' = [op |-> "updateBackground", before |-> backdrop,
                sent |-> BackgroundSent(backdrop, bg, bgImage, bgBlur)]
  /\ UNCHANGED <<stack, moved>>
  /\ PanelOnly

\* the calls the background controls make, and calls with arguments left out
BackdropNext ==
  \E bg \in Colors, bgImage \in Images \cup {NoImage, Undefined},
     bgBlur \in Blurs \cup {Undefined} : UpdateBackground(bg, bgImage, bgBlur)

SpecBackdrop == Init /\ [][BackdropNext]_vars

\* ---- the Editor's layer order ----
\* layers.findIndex(l => l.id === layerId): the first index, from 0, or -1
FindIndex(list, layerId) ==
  IF \E i \in DOMAIN list : list[i] = layerId
    THEN (CHOOSE i \in DOMAIN list :
            /\ list[i] = layerId
            /\ \A j \in 1..(i - 1) : list[j] # layerId) - 1
    ELSE 0 - 1

\* array[i]: undefined outside 0..length-1
At(list, i) == IF i \in 0..(Len(list) - 1) THEN list[i + 1] ELSE Undefined

\* array[i] = v for i < length: an element for 0 <= i, and for a negative i
\* a property named "-1" that is no element of the array
Put(list, i, v) == IF i \in 0..(Len(list) - 1) THEN [list EXCEPT ![i + 1] = v] ELSE list

\* [a[i], a[j]] = [a[j], a[i]]: the right side is read first
Swap(list, i, j) == Put(Put(list, i, At(list, j)), j, At(list, i))

\* moveLayerUp: the new array, and whether setLayers and
\* broadcastLayerUpdate were called with it
MoveLayerUpCalls(list, layerId) == FindIndex(list, layerId) < Len(list) - 1
MoveLayerUp(list, layerId) ==
  LET index == FindIndex(list, layerId) IN
  IF index < Len(list) - 1 THEN Swap(list, index, index + 1) ELSE list

\* moveLayerDown
MoveLayerDownCalls(list, layerId) == FindIndex(list, layerId) > 0
MoveLayerDown(list, layerId) ==
  LET index == FindIndex(list, layerId) IN
  IF index > 0 THEN Swap(list, index, index - 1) ELSE list

\* deleteLayer: layers.filter(l => l.id !== layerId)
RECURSIVE DeleteLayer(_, _)
DeleteLayer(list, layerId) ==
  IF list = <<>> THEN <<>>
  ELSE IF Head(list) # layerId
         THEN <<Head(list)>> \o DeleteLayer(Tail(list), layerId)
         ELSE DeleteLayer(Tail(list), layerId)

\* every array of layers a layer-update can carry
Stacks == UNION {[1..n -> LayerIds] : n \in 0..MaxLayers}

\* the array holds layers only: an array with undefined in it makes the next
\* render throw at layer.id, and the Editor is gone
Renders(list) == \A i \in DOMAIN list : list[i] \in LayerIds

Reorder(op, layerId, called, after) ==
  /\ Renders(stack)
  /\ stack' = after
  /\ moved' = [op |-> op, id |-> layerId, before |-> stack, called |-> called,
               sent |-> IF called THEN after ELSE <<>>]
  /\ UNCHANGED <<backdrop, bgCall>>
  /\ PanelOnly

ClickMoveLayerUp(layerId) ==
  Reorder("moveLayerUp", layerId, MoveLayerUpCalls(stack, layerId), MoveLayerUp(stack, layerId))

ClickMoveLayerDown(layerId) ==
  Reorder("moveLayerDown", layerId, MoveLayerDownCalls(stack, layerId),
          MoveLayerDown(stack, layerId))

ClickDeleteLayer(layerId) ==
  Reorder("deleteLayer", layerId, TRUE, DeleteLayer(stack, layerId))

\* a layer-update of another member replaces the array
RemoteStack(list) ==
  /\ Renders(stack)
  /\ stack' = HandleLayerUpdate(stack, [layers |-> list])
  /\ moved' = NoMove
  /\ UNCHANGED <<backdrop, bgCall>>
  /\ PanelOnly

\* the three functions on every array, for ids that are in it and ids that
\* are not
OrderNext ==
  \/ \E layerId \in LayerIds : ClickMoveLayerUp(layerId)
  \/ \E layerId \in LayerIds : ClickMoveLayerDown(layerId)
  \/ \E layerId \in LayerIds : ClickDeleteLayer(layerId)
  \/ \E list \in Stacks : RemoteStack(list)

SpecOrder == Init /\ [][OrderNext]_vars

\* ---- the clients' peer connections ----
\* the messages among q that the peer listeners of Room handle
RECURSIVE ForPeers(_)
ForPeers(q) ==
  IF q = <<>> THEN <<>>
  ELSE IF Head(q).type \in {"user-joined", "user-left", "signal"}
         THEN <<Head(q)>> \o ForPeers(Tail(q))
         ELSE ForPeers(Tail(q))

\* messages emitted to the sockets, appended to what each client has
\* pending; what is emitted to a socket that is gone is lost
DeliverPeers(box, o, live) ==
  [c \in SocketIds |-> IF c \in live THEN box[c] \o ForPeers(o[c]) ELSE <<>>]

\* the parts of the system the peer listeners do not touch
PeersOnly ==
  UNCHANGED <<logVars, editMode, editorLayers, upd, fifoVars, dragVars, panelVars>>

\* the notices of a server step reach the clients
PeersNotified ==
  /\ inbox' = DeliverPeers(inbox, out', sockets')
  /\ \A c \in SocketIds : Len(inbox'[c]) <= MaxPending

\* a Room component is mounted with roomId: io(serverUrl, ...) connects
Open(c, roomId) ==
  /\ clientRoom[c] = NoRoom
  /\ Connect(c)
  /\ clientRoom' = [clientRoom EXCEPT ![c] = roomId]
  /\ UNCHANGED <<inbox, peers, unsent>>
  /\ PeersOnly

\* newSocket.on('connect'): newSocket.emit('join-room', roomId), once per
\* connection, handled by the server
ClientJoin(c) ==
  /\ clientRoom[c] # NoRoom
  /\ \A r \in RoomIds : <<r, c>> \notin joined
  /\ JoinRoom(c, clientRoom[c])
  /\ PeersNotified
  /\ UNCHANGED <<peers, clientRoom, unsent>>
  /\ PeersOnly

\* the transport of a client is lost: the server handles 'disconnect'; the
\* Room component stays mounted and keeps peersRef (no listener of Room
\* reacts to the loss)
Drop(c) ==
  /\ clientRoom[c] # NoRoom
  /\ Disconnect(c)
  /\ PeersNotified
  /\ UNCHANGED <<peers, clientRoom, unsent>>
  /\ PeersOnly

\* the Room component is unmounted: the effect's cleanup destroys the peers,
\* clears peersRef and closes the socket
Close(c) ==
  /\ clientRoom[c] # NoRoom
  /\ Disconnect(c)
  /\ PeersNotified
  /\ peers' = [peers EXCEPT ![c] = NoPeers]
  /\ clientRoom' = [clientRoom EXCEPT ![c] = NoRoom]
  /\ unsent' = [unsent EXCEPT ![c] = {}]
  /\ PeersOnly

\* the socket of a client that lost its transport connects again
\* (reconnection is on, reconnectionAttempts: 5): the server gives the
\* connection a new id; the component, its peersRef and the signals its
\* socket has buffered are the same
Reconnect(old, new) ==
  /\ old \in closed
  /\ clientRoom[old] # NoRoom
  /\ Connect(new)
  /\ clientRoom' = [clientRoom EXCEPT ![new] = clientRoom[old], ![old] = NoRoom]
  /\ peers' = [peers EXCEPT ![new] = peers[old], ![old] = NoPeers]
  /\ unsent' = [unsent EXCEPT ![new] = unsent[old], ![old] = {}]
  /\ UNCHANGED inbox
  /\ PeersOnly

\* peer.on('signal'): socket.emit('signal', {to: peerId, signal}), handled
\* by the server
SendSignal(c, to, signal) ==
  /\ <<to, signal>> \in unsent[c]
  /\ Signal(c, to, signal)
  /\ PeersNotified
  /\ unsent' = [unsent EXCEPT ![c] = @ \ {<<to, signal>>}]
  /\ UNCHANGED <<peers, clientRoom>>
  /\ PeersOnly

\* createPeerConnection: peersRef.current.set(peerId, peerConn)
CreatePeerConnection(table, peerId, role) ==
  [x \in DOMAIN table \cup {peerId} |-> IF x = peerId THEN role ELSE table[x]]

\* peersRef.current.delete(leftUserId)
DeletePeer(table, peerId) == [x \in DOMAIN table \ {peerId} |-> table[x]]

\* the user-joined, user-left and signal listeners of Room, on the oldest
\* message the socket has
HandlePeerMessage(c) ==
  /\ c \in sockets
  /\ inbox[c] # <<>>
  /\ inbox' = [inbox EXCEPT ![c] = Tail(inbox[c])]
  /\ LET data == Head(inbox[c]) IN
       CASE data.type = "user-joined" ->
              \* createPeerConnection(newUserId, true, newSocket); the
              \* initiator produces its offer
              /\ peers' = [peers EXCEPT ![c] =
                             CreatePeerConnection(peers[c], data.userId, Initiator)]
              /\ unsent' = [unsent EXCEPT ![c] = @ \cup {<<data.userId, Offer>>}]
              /\ last' = Event("handle-user-joined", c, data.userId, 0)
         [] data.type = "user-left" ->
              \* peerConn.peer.destroy(); peersRef.current.delete(leftUserId)
              /\ peers' = [peers EXCEPT ![c] = DeletePeer(peers[c], data.userId)]
              /\ unsent' = [unsent EXCEPT ![c] =
                              {m \in @ : m[1] # data.userId}]
              /\ last' = Event("handle-user-left", c, data.userId, 0)
         [] data.type = "signal" ->
              \* a peer connection is created as non-initiator if there is
              \* none for `from`; peer.signal(signal): a non-initiator
              \* answers an offer
              LET table == IF data.from \in DOMAIN peers[c] THEN peers[c]
                           ELSE CreatePeerConnection(peers[c], data.from, Responder)
              IN /\ peers' = [peers EXCEPT ![c] = table]
                 /\ unsent' = [unsent EXCEPT ![c] =
                                 IF table[data.from] = Responder /\ data.signal = Offer
                                   THEN @ \cup {<<data.from, Answer>>} ELSE @]
                 /\ last' = Event("handle-signal", c, data.from, data.signal)
  /\ out' = NoOut
  /\ UNCHANGED <<sockets, closed, rooms, adapter, joined, clientRoom>>
  /\ PeersOnly

\* clients that open rooms, lose and regain their connections, and set up
\* their peer connections through the server
PeersNext ==
  \/ \E c \in SocketIds, roomId \in PlainRoomIds : Open(c, roomId)
  \/ \E c \in SocketIds : ClientJoin(c)
  \/ \E c \in SocketIds : Drop(c)
  \/ \E c \in SocketIds : Close(c)
  \/ \E old \in SocketIds, new \in SocketIds : Reconnect(old, new)
  \/ \E c \in SocketIds, to \in SocketIds, signal \in {Offer, Answer} :
       SendSignal(c, to, signal)
  \/ \E c \in SocketIds : HandlePeerMessage(c)

SpecPeers == Init /\ [][PeersNext]_vars

\* ---- the transport ----
\* the packets a client can send; the handlers never look into a payload, so
\* one payload of each kind is followed through the transport
Packets ==
  [op : {"join-room"}, arg : RoomIds, data : {0}]
    \cup [op : {"signal"}, arg : Names, data : {1}]
    \cup [op : {"layer-update"}, arg : RoomIds, data : {1}]

\* number of packets sent so far by the sockets 1..n
RECURSIVE SentBy(_, _)
SentBy(s, n) == IF n = 0 THEN 0 ELSE s[n] + SentBy(s, n - 1)

\* the messages one handler run emits, each marked with the socket whose
\* packet (or loss) caused it and the number of that packet, appended in the
\* order of emission to what has reached each client
Arrive(arr, o, id, no) ==
  [c \in SocketIds |->
     arr[c] \o [i \in DOMAIN o[c] |-> [msg |-> o[c][i], by |-> id, no |-> no]]]

\* a client sends a packet
Send(id, packet) ==
  /\ id \in sockets
  /\ Len(sendq[id]) < MaxQueue
  /\ SentBy(sent, NumConns) < MaxSends
  /\ sent' = [sent EXCEPT ![id] = sent[id] + 1]
  /\ sendq' = [sendq EXCEPT ![id] = Append(sendq[id], [packet |-> packet, no |-> sent'[id]])]
  /\ last' = Event("send", id, 0, 0)
  /\ out' = NoOut
  /\ UNCHANGED <<sockets, closed, rooms, adapter, joined, arrived>>

\* a server that takes the newest packet of a socket first
DequeueNewest(q) == [next |-> q[Len(q)], rest |-> SubSeq(q, 1, Len(q) - 1)]

\* the packets of one socket reach their listeners in the order sent, and
\* every listener runs to its end (emits included) before the next packet
Dequeue(q) == [next |-> Head(q), rest |-> Tail(q)]

\* the server runs the listener for the next packet of a socket
Handle(id) ==
  /\ sendq[id] # <<>>
  /\ LET next == Dequeue(sendq[id]).next
         packet == next.packet
     IN /\ CASE packet.op = "join-room" -> JoinRoom(id, packet.arg)
             [] packet.op = "signal" -> Signal(id, packet.arg, packet.data)
             [] packet.op = "layer-update" -> LayerUpdate(id, packet.arg, packet.data)
        /\ arrived' = Arrive(arrived, out', id, next.no)
  /\ sendq' = [sendq EXCEPT ![id] = Dequeue(sendq[id]).rest]
  /\ UNCHANGED sent

\* the connection is lost: its packets still on the way are lost with it, and
\* the notices of the disconnect handler come after everything it caused
Lose(id) ==
  /\ Disconnect(id)
  /\ sendq' = [sendq EXCEPT ![id] = <<>>]
  /\ arrived' = Arrive(arrived, out', id, sent[id] + 1)
  /\ UNCHANGED sent

\* connections, packets on their way to the server, and their handling
FifoNext ==
  \/ \E id \in SocketIds : Connect(id) /\ UNCHANGED <<logVars, clientVars, fifoVars, dragVars, panelVars, peerVars>>
  \/ \E id \in SocketIds, packet \in Packets :
       Send(id, packet) /\ UNCHANGED <<logVars, clientVars, dragVars, panelVars, peerVars>>
  \/ \E id \in SocketIds : Handle(id) /\ UNCHANGED <<logVars, clientVars, dragVars, panelVars, peerVars>>
  \/ \E id \in SocketIds : Lose(id) /\ UNCHANGED <<logVars, clientVars, dragVars, panelVars, peerVars>>

SpecFifo == Init /\ [][FifoNext]_vars

\* ---- properties ----
\* number of messages of a type that the last step delivered to socket c
NumOut(c, type) == Cardinality({i \in DOMAIN out[c] : out[c][i].type = type})
\* rooms of the directory that held id before the last step
RoomsOf(rm, id) == {r \in DOMAIN rm : id \in rm[r]}

\* C1: after any sequence of join-room and disconnect events, the member set
\* the directory holds for a room identifier is exactly the set of
\* connections that have joined that room and have not disconnected (empty
\* or absent for a room nobody is in).
C1_MembersAreJoinedNotLeft ==
  \A r \in RoomIds :
    Users(rooms, r) = {c \in SocketIds : <<r, c>> \in joined /\ c \notin closed}

\* C1 witness: a room somebody joined and left while another member remains
C1_Witness ==
  \E r \in RoomIds : \E c \in closed :
    /\ <<r, c>> \in joined
    /\ Users(rooms, r) # {}

\* C2: between two handlers the directory holds no room with an empty member
\* set: a room is created with its first member and the removal that empties
\* a room deletes it in the same step.
C2_NoEmptyRoom == \A r \in DOMAIN rooms : rooms[r] # {}

\* C2 witness: a disconnect has just emptied a room, and the room is gone
C2_Witness ==
  /\ last.op = "disconnect"
  /\ \E r \in RoomsOf(last.rooms, last.id) : last.rooms[r] = {last.id} /\ r \notin DOMAIN rooms
  /\ DOMAIN rooms # {}

\* C3: no phantom members: every identity in any room's member set belongs
\* to a connected socket, and an identity whose disconnect has been processed
\* is in no member set, even if it had joined several rooms.
C3_NoPhantomMembers ==
  /\ \A r \in DOMAIN rooms : rooms[r] \subseteq sockets
  /\ \A c \in closed : RoomsOf(rooms, c) = {}

\* C3 witness: a connection that had joined two rooms has disconnected, and
\* a room it was in lives on with its other members
C3_Witness ==
  /\ last.op = "disconnect"
  /\ Cardinality(RoomsOf(last.rooms, last.id)) >= 2
  /\ \E r \in RoomsOf(last.rooms, last.id) : r \in DOMAIN rooms
  /\ RoomsOf(rooms, last.id) = {}

\* C4: when a member X of room R disconnects, every remaining member of R
\* receives exactly one user-left carrying X's identity, and no connection
\* that is not a remaining member of a room X was in (X included) receives a
\* user-left for X.
C4_UserLeftOncePerRemainingMember ==
  last.op = "disconnect" =>
    LET remaining == UNION {Users(rooms, r) : r \in RoomsOf(last.rooms, last.id)}
    IN \A c \in SocketIds :
         /\ NumOut(c, "user-left") = IF c \in remaining THEN 1 ELSE 0
         /\ \A i \in DOMAIN out[c] : out[c][i].userId = last.id

\* C5: connection-loss cleanup happens once: a second run of the disconnect
\* handling for a connection leaves the directory unchanged and sends no
\* second user-left to anyone.
C5_SecondDisconnectIsNoOp ==
  last.op = "disconnect-again" => rooms = last.rooms /\ out = NoOut

\* C5 witness: the handler has run again for a connection that had joined a
\* room in which other members remain
C5_Witness ==
  /\ last.op = "disconnect-again"
  /\ \E r \in DOMAIN rooms : <<r, last.id>> \in joined
  /\ out = NoOut

\* C6: a signal from A addressed to a connected identity B makes B receive
\* exactly one signal message, with source A and the payload A sent.
C6_SignalDeliveredOnce ==
  (last.op = "signal" /\ last.arg \in sockets) =>
    /\ Len(out[last.arg]) = 1
    /\ out[last.arg][1].type = "signal"
    /\ out[last.arg][1].from = last.id
    /\ out[last.arg][1].signal = last.data

\* C6 witness: a signal to another connected socket has been relayed
C6_Witness ==
  /\ last.op = "signal"
  /\ last.arg \in sockets \ {last.id}
  /\ Len(out[last.arg]) = 1
  /\ out[last.arg][1].from = last.id

\* C7: a signal addressed to an identity that is not connected is dropped:
\* nobody receives anything and the server state is unchanged.
C7_SignalToAbsentDropped ==
  (last.op = "signal" /\ last.arg \in closed) =>
    /\ out = NoOut
    /\ rooms = last.rooms
    /\ adapter = last.adapter

\* C8: a capture-trigger naming room R delivers exactly one capture-now to
\* every member of R at that moment, and none to a connection that is not a
\* member of R in the directory.
C8_CaptureNowToMembersOnly ==
  last.op = "capture-trigger" =>
    \A c \in SocketIds :
      /\ NumOut(c, "capture-now") = IF c \in Users(last.rooms, last.arg) THEN 1 ELSE 0
      /\ Len(out[c]) = NumOut(c, "capture-now")

\* C9: a layer-update for R with list L from a member S of R makes every
\* other member of R receive exactly one layer-update carrying L, and S
\* receive none.
C9_LayerUpdateToOtherMembers ==
  (last.op = "layer-update" /\ last.id \in Users(last.rooms, last.arg)) =>
    /\ \A c \in Users(last.rooms, last.arg) \ {last.id} :
         /\ Len(out[c]) = 1
         /\ out[c][1].type = "layer-update"
         /\ out[c][1].layers = last.data
    /\ out[last.id] = <<>>

\* C10: a background-update for R with descriptor D from a member S of R
\* makes every other member of R receive exactly one background-update
\* carrying D, and S receive none.
C10_BackgroundUpdateToOtherMembers ==
  (last.op = "background-update" /\ last.id \in Users(last.rooms, last.arg)) =>
    /\ \A c \in Users(last.rooms, last.arg) \ {last.id} :
         /\ Len(out[c]) = 1
         /\ out[c][1].type = "background-update"
         /\ out[c][1].background = last.data
    /\ out[last.id] = <<>>

\* C12: capture triggers and layer updates are fanned out only within the
\* issuing connection's own room: a capture-trigger or layer-update by X
\* naming R reaches members of R only if X is itself a member of R.
C12_FanOutOnlyFromMembers ==
  (last.op \in {"capture-trigger", "layer-update"}
     /\ last.id \notin Users(last.rooms, last.arg)) =>
    \A c \in Users(last.rooms, last.arg) : out[c] = <<>>

\* C13: in every reachable state each connection identity is in the member
\* set of at most one room.
C13_AtMostOneRoom == \A id \in SocketIds : Cardinality(RoomsOf(rooms, id)) <= 1

\* C15: when a member X of R sends join-room for R again, R's member set is
\* unchanged, X receives room-joined and every other member of R receives
\* user-joined.
C15_RejoinNotifies ==
  (last.op = "join-room" /\ last.id \in Users(last.rooms, last.arg)) =>
    /\ rooms = last.rooms
    /\ NumOut(last.id, "room-joined") = 1
    /\ \A c \in Users(rooms, last.arg) \ {last.id} :
         /\ NumOut(c, "user-joined") = 1
         /\ \A i \in DOMAIN out[c] : out[c][i].userId = last.id

\* C16: a room whose members have all left is like a room never created:
\* the disconnect of its last member leaves no entry for it, and a later
\* join-room by X makes its member set exactly {X} and delivers to X nothing
\* but the acknowledgement of that join.
C16_EmptiedRoomIsFresh ==
  /\ last.op = "disconnect" =>
       \A r \in DOMAIN last.rooms : last.rooms[r] = {last.id} => r \notin DOMAIN rooms
  /\ (last.op = "join-room" /\ last.arg \notin DOMAIN last.rooms) =>
       /\ Users(rooms, last.arg) = {last.id}
       /\ Len(out[last.id]) = 1
       /\ out[last.id][1].type = "room-joined"

\* C16 witness: a connection has joined a room that existed before and was
\* deleted when its last member left
C16_Witness ==
  /\ last.op = "join-room"
  /\ last.arg \notin DOMAIN last.rooms
  /\ \E c \in closed : <<last.arg, c>> \in joined
  /\ Users(rooms, last.arg) = {last.id}

\* C17: every join-room from X for room R produces exactly one room-joined,
\* delivered to X only, carrying X's identity and the room identifier R.
C17_RoomJoinedToJoinerOnly ==
  last.op = "join-room" =>
    /\ NumOut(last.id, "room-joined") = 1
    /\ out[last.id][1].type = "room-joined"
    /\ out[last.id][1].userId = last.id
    /\ out[last.id][1].roomId = last.arg
    /\ \A c \in SocketIds \ {last.id} : NumOut(c, "room-joined") = 0

\* C17 witness: a join-room into a room that already has another member
C17_Witness ==
  /\ last.op = "join-room"
  /\ Users(last.rooms, last.arg) \ {last.id} # {}
  /\ NumOut(last.id, "room-joined") = 1

\* C18: the relay ignores room membership: a signal from A to a connected B
\* is delivered to B whether A and B share a room, are in different rooms,
\* or are in no room.
C18_RelayIgnoresRooms ==
  (last.op = "signal" /\ last.arg \in sockets) =>
    \E i \in DOMAIN out[last.arg] :
      out[last.arg][i].type = "signal" /\ out[last.arg][i].from = last.id

\* C18 witness: a signal has been relayed between two sockets that are
\* members of different rooms and share none
C18_Witness ==
  /\ last.op = "signal"
  /\ last.arg \in sockets \ {last.id}
  /\ RoomsOf(rooms, last.id) # {}
  /\ RoomsOf(rooms, last.arg) # {}
  /\ RoomsOf(rooms, last.id) \cap RoomsOf(rooms, last.arg) = {}
  /\ NumOut(last.arg, "signal") = 1

C19_TriggersNotCoalesced ==
  capLog.room # 0 =>
    \A c \in Users(rooms, capLog.room) : capLog.got[c] = capLog.sent

\* C19 witness: two triggers for a room with two members have been counted
C19_Witness ==
  /\ capLog.sent >= 2
  /\ Cardinality(Users(rooms, capLog.room)) >= 2
  /\ \A c \in Users(rooms, capLog.room) : capLog.got[c] >= 2
\* C11: when one member's layer-update has reached the others and another
\* member then sends a layer-update for the same room, every member with an
\* open Editor other than the second sender holds the second sender's layers
\* once nothing is left to deliver.
C11_LastUpdateWins ==
  (/\ Len(upd) = 2
   /\ upd[1].roomId = upd[2].roomId
   /\ upd[1].from # upd[2].from
   /\ upd[2].quiet
   /\ ~Pending(inbox, "layer-update"))
  => \A m \in Users(rooms, upd[2].roomId) \ {upd[2].from} :
       editMode[m] => editorLayers[m] = upd[2].layers

C21_JoinAddsToMembers ==
  last.op = "join-room"
    => Users(rooms, last.arg) = Users(last.rooms, last.arg) \cup {last.id}

\* C21 witness: a socket has just joined a room that another socket is in
C21_Witness ==
  /\ last.op = "join-room"
  /\ Users(last.rooms, last.arg) \ {last.id} # {}
  /\ last.id \notin Users(last.rooms, last.arg)

\* C22: a join-room for a room leaves every other room identifier as it was:
\* in the directory before if and only if after, with the same members.
C22_JoinLeavesOtherRooms ==
  last.op = "join-room"
    => \A r \in RoomIds \ {last.arg} :
         /\ (r \in DOMAIN rooms) = (r \in DOMAIN last.rooms)
         /\ Users(rooms, r) = Users(last.rooms, r)

\* C22 witness: the socket that has just joined a room is a member of
\* another room
C22_Witness ==
  /\ last.op = "join-room"
  /\ \E r \in RoomIds \ {last.arg} : last.id \in Users(last.rooms, r)

\* C28: on a join-room by X for room R, every socket that was a member of R
\* before (X apart) is delivered user-joined exactly once, X and every socket
\* outside R's member set are delivered none, and the notice names X.
C28_UserJoinedToMembersOnce ==
  last.op = "join-room"
    => \A c \in SocketIds :
         /\ NumOut(c, "user-joined") =
              (IF c \in Users(last.rooms, last.arg) \ {last.id} THEN 1 ELSE 0)
         /\ \A i \in DOMAIN out[c] :
              out[c][i].type = "user-joined" => out[c][i].userId = last.id

\* C26: handling a layer-update leaves the server's state (the directory and
\* the broadcast groups) as it was, and a join-room delivers no layer-update
\* to anyone: a socket that joins after an update was broadcast is sent none.
C26_NoReplayToJoiner ==
  /\ last.op = "layer-update" => rooms = last.rooms /\ adapter = last.adapter
  /\ last.op = "join-room" => \A c \in SocketIds : NumOut(c, "layer-update") = 0

\* C26 witness: a socket has just joined a room while a layer-update that was
\* broadcast to the room is still on its way to one of its members
C26_Witness ==
  /\ last.op = "join-room"
  /\ last.id \notin Users(last.rooms, last.arg)
  /\ \E c \in Users(last.rooms, last.arg) \ RoomIds :
       /\ {r \in RoomIds : <<r, c>> \in joined} = {last.arg}
       /\ \E i \in DOMAIN inbox[c] : inbox[c][i].type = "layer-update"

C25_NextUpdateHealsDivergence ==
  (/\ upd # <<>>
   /\ upd[Len(upd)].quiet
   /\ ~Pending(inbox, "layer-update")
   /\ \A m \in Users(rooms, upd[Len(upd)].roomId) : editMode[m])
  => \A m \in Users(rooms, upd[Len(upd)].roomId) :
       editorLayers[m] = upd[Len(upd)].layers

\* C29: when two members each send a layer-update to the other, the second
\* one sent while the first was still on its way to its sender, then once
\* both are handled each of the two holds the other's list.
C29_RacingUpdatesSwap ==
  (/\ Len(upd) = 2
   /\ upd[1].from # upd[2].from
   /\ upd[2].from \in upd[1].to
   /\ upd[1].from \in upd[2].to
   /\ upd[2].raced
   /\ ~Pending(inbox, "layer-update"))
  => /\ editorLayers[upd[1].from] = upd[2].layers
     /\ editorLayers[upd[2].from] = upd[1].layers

\* C29 witness: after such a race with two different lists, with nothing on
\* its way to any client, two members of one room hold different lists
C29_Witness ==
  /\ Len(upd) = 2
  /\ upd[1].roomId = upd[2].roomId
  /\ upd[1].from # upd[2].from
  /\ upd[2].from \in upd[1].to
  /\ upd[1].from \in upd[2].to
  /\ upd[2].raced
  /\ \A c \in SocketIds : inbox[c] = <<>>
  /\ {upd[1].from, upd[2].from} \subseteq Users(rooms, upd[1].roomId)
  /\ editorLayers[upd[1].from] # editorLayers[upd[2].from]

\* C30: no drag and no opacity, scale or rotation input changes a layer that
\* is locked in the Editor's layer list when the action is handled.
C30_LockedLayersNotEdited ==
  (edited.op \in {"drag", "property"} /\ edited.locked) => ~edited.changed

\* the sockets that were connected before the last step: each is in the
\* broadcast group named by its own id
ConnectedBefore == {c \in SocketIds : c \in last.adapter[c]}

\* C23: a message whose argument is not a string, or whose payload is
\* missing, is discarded: it delivers nothing to anyone, its sender stays
\* connected, and the directory stays as it was.
C23_MalformedDiscarded ==
  (/\ last.op \in {"join-room", "capture-trigger", "signal", "layer-update"}
   /\ last.arg \in {NotAString, Missing})
  => /\ out = NoOut
     /\ last.id \in sockets
     /\ rooms = last.rooms

\* C24: after a message of any shape from one socket is handled, every other
\* socket that was connected is still connected, and every room the sender
\* is not in has the members it had.
C24_FaultIsolation ==
  last.op \in {"join-room", "capture-trigger", "signal", "layer-update"}
  => /\ ConnectedBefore \ {last.id} \subseteq sockets
     /\ \A r \in DOMAIN last.rooms :
          (last.id \notin last.rooms[r] /\ last.id \notin Users(rooms, r))
            => Users(rooms, r) = last.rooms[r]

\* C31: a signal addressed to an identity is delivered to no socket other
\* than the one with that identity.
C31_SignalToDestinationOnly ==
  last.op = "signal"
    => \A c \in SocketIds \ {last.arg} : NumOut(c, "signal") = 0

\* C32: for every room of the directory, the sockets a broadcast to the room
\* reaches are the room's members: all of them for io.to(room), all but the
\* sender for a member's socket.to(room).
C32_GroupsAgreeWithDirectory ==
  \A r \in DOMAIN rooms :
    /\ IoTo(adapter, r) = rooms[r]
    /\ \A id \in rooms[r] : SocketTo(adapter, id, r) = rooms[r] \ {id}

\* C33: handling a signal, a layer-update or a capture-trigger, whatever room
\* or destination it names, leaves the directory as it was: the same rooms
\* with the same members.
C33_RelaysLeaveDirectory ==
  last.op \in {"signal", "layer-update", "capture-trigger"} => rooms = last.rooms

\* C33 witness: a capture-trigger has just been handled that names a room the
\* directory does not have, while the directory has another room
C33_Witness ==
  /\ last.op = "capture-trigger"
  /\ last.arg \in RoomIds \ DOMAIN rooms
  /\ rooms # <<>>

\* C34: when two members of a room have each sent a layer-update and nothing
\* is on its way any more, every other member of the room whose Editor is
\* open was sent both updates and holds the list of the one the server
\* handled last.
C34_BystandersAgree ==
  (/\ Len(upd) = 2
   /\ upd[1].roomId = upd[2].roomId
   /\ upd[1].from # upd[2].from
   /\ ~Pending(inbox, "layer-update"))
  => \A m \in Users(rooms, upd[1].roomId) \ {upd[1].from, upd[2].from} :
       editMode[m] => /\ m \in upd[1].to \cap upd[2].to
                      /\ editorLayers[m] = upd[2].layers

\* the number of messages the clients have not handled yet
RECURSIVE Backlog(_, _)
Backlog(box, cs) ==
  IF cs = {} THEN 0
  ELSE LET c == CHOOSE x \in cs : TRUE IN Len(box[c]) + Backlog(box, cs \ {c})

\* C35: a client that handles a message emits nothing: the step delivers no
\* message to any socket and takes exactly one message off what the clients
\* still have to handle, so the messages of one edit are used up after as
\* many steps as there are receivers; and one edit is sent to each receiver
\* once.
C35_NoEcho ==
  [][/\ last'.op = "receive"
       => /\ out' = NoOut
          /\ Backlog(inbox', SocketIds) = Backlog(inbox, SocketIds) - 1
     /\ last'.op = "layer-update"
       => \A c \in SocketIds : Count(out', c, "layer-update") <= 1]_vars

\* C35 witness: the one layer-update sent since the last capture has just been
\* handled by a member, who holds its list, and no client has a message left
C35_Witness ==
  /\ last.op = "receive"
  /\ Len(upd) = 1
  /\ last.id \in upd[1].to
  /\ editMode[last.id]
  /\ upd[1].layers # InitialLayers
  /\ editorLayers[last.id] = upd[1].layers
  /\ \A c \in SocketIds : inbox[c] = <<>>

\* C40: after a capture-now with n > 0 frames is handled while the Editor is
\* shown, the Editor's layer list has one layer per frame, each unlocked at
\* offset 0 with opacity 1, and no layer-update was sent.
C40_CaptureResetsLayers ==
  edited.op = "capture"
    => /\ DOMAIN editor.layers = 1..edited.frames
       /\ \A l \in DOMAIN editor.layers :
            editor.layers[l] = [locked |-> FALSE, x |-> 0, opacity |-> 1]
       /\ ~edited.sent

\* C40 witness: a capture has just replaced a layer list that had been edited
C40_Witness ==
  /\ edited.op = "capture"
  /\ edited.changed
  /\ edited.frames = Cardinality(LayerIds)

\* C36: after every updateBackground call, the background, image and blur
\* of the background-update it emitted are the ones the Editor holds.
C36_BroadcastIsLocalBackground ==
  bgCall.op = "updateBackground" => bgCall.sent = backdrop

\* the arrays that differ from list by the swap of two neighbours
NeighbourSwaps(list) ==
  {[k \in DOMAIN list |->
      IF k = i THEN list[i + 1] ELSE IF k = i + 1 THEN list[i] ELSE list[k]] :
     i \in 1..(Len(list) - 1)}

\* C37: moveLayerUp and moveLayerDown leave the array as it is or swap two
\* neighbours of it, and leave it as it is when the id is not in it; what
\* they broadcast is the new array; deleteLayer leaves and broadcasts the
\* array without the layers of that id, the others in their order.
C37_OrderKeepsLayers ==
  /\ moved.op \in {"moveLayerUp", "moveLayerDown"}
       => /\ stack \in {moved.before} \cup NeighbourSwaps(moved.before)
          /\ (\A i \in DOMAIN moved.before : moved.before[i] # moved.id)
               => stack = moved.before
          /\ moved.called => moved.sent = stack
  /\ moved.op = "deleteLayer"
       => /\ stack = SelectSeq(moved.before, LAMBDA l : l # moved.id)
          /\ moved.sent = stack

\* C38: no two connected clients hold initiator peer connections for each
\* other.
C38_RolesAsymmetric ==
  \A a \in sockets : \A b \in sockets \ {a} :
    ~(/\ b \in DOMAIN peers[a] /\ peers[a][b] = Initiator
      /\ a \in DOMAIN peers[b] /\ peers[b][a] = Initiator)

\* no message is on its way: every connected client has joined its room, no
\* client has a message to handle or a signal to send
Quiet ==
  \A c \in SocketIds :
    /\ inbox[c] = <<>>
    /\ unsent[c] = {}
    /\ c \in sockets /\ clientRoom[c] # NoRoom => <<clientRoom[c], c>> \in joined

\* C39: after a client has handled user-left for X its peer table has no
\* entry for X, and when no message is on its way every identity in a
\* connected client's peer table is a connected member of the client's room.
C39_PeersTrackMembers ==
  /\ last.op = "handle-user-left" => last.arg \notin DOMAIN peers[last.id]
  /\ Quiet => \A c \in sockets :
                clientRoom[c] # NoRoom
                  => DOMAIN peers[c] \subseteq Users(rooms, clientRoom[c]) \cap sockets

====
